---------------------------- MODULE Spec2Model ----------------------------
(***************************************************************************)
(* State-machine model of src/data_cleaning.py (class DataCleaning) and of *)
(* the stage order of src/main.py.                                          *)
(*                                                                          *)
(* A text (Python str) is a sequence of characters.  A character is a       *)
(* one-character string; the two non-ASCII characters the model uses are    *)
(* written by name: "POUND" is the pound sign and "U+00BD" is the vulgar    *)
(* fraction one half, a character for which str.isnumeric() is true while   *)
(* str.isdigit() and str.isalpha() are false.                               *)
(*                                                                          *)
(* A cell is one of                                                         *)
(*    [k |-> "nan"]                       the missing value (NaN / NaT)     *)
(*    [k |-> "str",  s |-> text]          a text                            *)
(*    [k |-> "num",  n |-> i, e |-> j]    the decimal number i * 10^(-j)    *)
(*    [k |-> "date", y, m, d, h, mi, s, ns]  a timestamp                    *)
(* A table is [cols |-> set of column names, rows |-> sequence of rows],    *)
(* a row being a function from cols to cells.                               *)
(***************************************************************************)
EXTENDS Integers, Sequences, FiniteSets, TLC

VARIABLES
    dataset,  \* which pipeline runs
    input,    \* the table (or the JSON mapping) the caller passed in
    df,       \* the DataFrame the stages pass along
    prev,     \* df as it was when the last stage was entered
    last,     \* the stage that acted last ("none" before the first)
    pc,       \* the next stage, "returned", or "raised"
    err       \* "none", or the exception that left the pipeline

vars == <<dataset, input, df, prev, last, pc, err>>

---------------------------------------------------------------------------
(* Characters and the str predicates of Python                              *)

UpperCase == <<"A", "B", "C", "D", "E", "F", "G", "H", "I", "J", "K", "L", "M",
               "N", "O", "P", "Q", "R", "S", "T", "U", "V", "W", "X", "Y", "Z">>

LowerCase == <<"a", "b", "c", "d", "e", "f", "g", "h", "i", "j", "k", "l", "m",
               "n", "o", "p", "q", "r", "s", "t", "u", "v", "w", "x", "y", "z">>

DecimalDigits == <<"0", "1", "2", "3", "4", "5", "6", "7", "8", "9">>

Range(f) == {f[i] : i \in DOMAIN f}

Letters == Range(UpperCase) \cup Range(LowerCase)

Digits == Range(DecimalDigits)

\* str.isalpha() of one character.
CharIsAlpha(c) == c \in Letters

\* str.isdigit() of one character (also what \d of module re matches here).
CharIsDigit(c) == c \in Digits

\* str.isnumeric() of one character.
CharIsNumeric(c) == CharIsDigit(c) \/ c = "U+00BD"

\* str.isalnum() of one character: isalpha, isdecimal, isdigit or isnumeric.
CharIsAlnum(c) == CharIsAlpha(c) \/ CharIsDigit(c) \/ CharIsNumeric(c)

\* \w of module re: an alphanumeric character or the underscore.
CharIsWord(c) == CharIsAlnum(c) \/ c = "_"

\* str.isspace() of one character.
CharIsSpace(c) == c \in {" ", "\n", "\t"}

\* The predicates on a whole text are false on the empty text.
isalnum(s) == Len(s) > 0 /\ \A i \in 1..Len(s) : CharIsAlnum(s[i])

isdigit(s) == Len(s) > 0 /\ \A i \in 1..Len(s) : CharIsDigit(s[i])

isalpha(s) == Len(s) > 0 /\ \A i \in 1..Len(s) : CharIsAlpha(s[i])

DigitValue(c) == CHOOSE v \in 0..9 : DecimalDigits[v + 1] = c

LowerChar(c) ==
    IF c \in Range(UpperCase)
    THEN LowerCase[CHOOSE i \in 1..26 : UpperCase[i] = c]
    ELSE c

\* str.lower()
lower(s) == [i \in 1..Len(s) |-> LowerChar(s[i])]

RECURSIVE strip(_)
\* str.strip()
strip(s) ==
    IF Len(s) = 0 THEN s
    ELSE IF CharIsSpace(s[1]) THEN strip(Tail(s))
    ELSE IF CharIsSpace(s[Len(s)]) THEN strip(SubSeq(s, 1, Len(s) - 1))
    ELSE s

\* sub in s
Contains(s, sub) ==
    \E i \in 0..(Len(s) - Len(sub)) : SubSeq(s, i + 1, i + Len(sub)) = sub

RECURSIVE StrReplace(_, _, _)
\* str.replace(old, new) for a non-empty old: leftmost, non-overlapping.
StrReplace(s, old, new) ==
    IF Len(s) < Len(old) THEN s
    ELSE IF SubSeq(s, 1, Len(old)) = old
         THEN new \o StrReplace(SubSeq(s, Len(old) + 1, Len(s)), old, new)
         ELSE <<s[1]>> \o StrReplace(Tail(s), old, new)

\* re.sub(r'\D', '', s) and re.sub(r'[^\d]', '', s): the digits of s, in order.
DigitsOnly(s) == SelectSeq(s, LAMBDA c : CharIsDigit(c))

RECURSIVE DigitsToInt(_)
\* The value of a text of decimal digits (0 for the empty text).
DigitsToInt(s) ==
    IF Len(s) = 0 THEN 0
    ELSE 10 * DigitsToInt(SubSeq(s, 1, Len(s) - 1)) + DigitValue(s[Len(s)])

RECURSIVE Pow10(_)
Pow10(n) == IF n = 0 THEN 1 ELSE 10 * Pow10(n - 1)

---------------------------------------------------------------------------
(* Cells                                                                    *)

NaN == [k |-> "nan"]

Str(s) == [k |-> "str", s |-> s]

RECURSIVE Normalize(_, _)
\* The decimal n * 10^(-e) with no trailing zero in its fraction.
Normalize(n, e) ==
    IF e > 0 /\ n % 10 = 0 THEN Normalize(n \div 10, e - 1)
    ELSE [k |-> "num", n |-> n, e |-> e]

\* A numeric cell: the non-negative decimal n * 10^(-e).
Num(n, e) == Normalize(n, e)

Timestamp(y, m, d, h, mi, s, ns) ==
    [k |-> "date", y |-> y, m |-> m, d |-> d, h |-> h, mi |-> mi, s |-> s, ns |-> ns]

Date(y, m, d) == Timestamp(y, m, d, 0, 0, 0, 0)

IsStr(c) == c.k = "str"

\* pd.isna / pd.isnull / pd.notnull of a scalar cell.
IsNull(c) == c.k = "nan"

RECURSIVE IntText(_)
\* str(n) of a non-negative int.
IntText(n) ==
    IF n < 10 THEN <<DecimalDigits[n + 1]>>
    ELSE IntText(n \div 10) \o <<DecimalDigits[(n % 10) + 1]>>

RECURSIVE ZeroPad(_, _)
ZeroPad(s, width) == IF Len(s) >= width THEN s ELSE ZeroPad(<<"0">> \o s, width)

\* str(x) of a cell: a text is itself, NaN is 'nan', a number is its decimal
\* notation, a Timestamp is 'YYYY-MM-DD HH:MM:SS'.
PyStr(c) ==
    CASE c.k = "str" -> c.s
      [] c.k = "nan" -> <<"n", "a", "n">>
      [] c.k = "num" ->
            IF c.e = 0 THEN IntText(c.n)
            ELSE IntText(c.n \div Pow10(c.e)) \o <<".">>
                 \o ZeroPad(IntText(c.n % Pow10(c.e)), c.e)
      [] c.k = "date" ->
            ZeroPad(IntText(c.y), 4) \o <<"-">> \o ZeroPad(IntText(c.m), 2)
            \o <<"-">> \o ZeroPad(IntText(c.d), 2) \o <<" ">>
            \o ZeroPad(IntText(c.h), 2) \o <<":">> \o ZeroPad(IntText(c.mi), 2)
            \o <<":">> \o ZeroPad(IntText(c.s), 2)

\* any(char.isdigit() for char in s)
AnyDigit(s) == \E i \in 1..Len(s) : CharIsDigit(s[i])

---------------------------------------------------------------------------
(* Tables                                                                   *)

Table(cols, rows) == [cols |-> cols, rows |-> rows]

\* Series.apply(f) assigned back to df[col]: f applied to every cell of col.
ApplyCol(t, col, f(_)) ==
    [t EXCEPT !.rows = [i \in 1..Len(t.rows) |->
                           [t.rows[i] EXCEPT ![col] = f(t.rows[i][col])]]]

\* df.drop(columns=...) of columns that are present.
DropCols(t, cols) ==
    Table(t.cols \ cols,
          [i \in 1..Len(t.rows) |-> [c \in t.cols \ cols |-> t.rows[i][c]]])

\* df[mask]: the rows that satisfy keep, in their order.
FilterRows(t, keep(_)) == [t EXCEPT !.rows = SelectSeq(t.rows, keep)]

---------------------------------------------------------------------------
(* The .str accessor (df[col].str.replace)                                  *)

HasText(t, col) == \E i \in 1..Len(t.rows) : IsStr(t.rows[i][col])

AllNull(t, col) == \A i \in 1..Len(t.rows) : IsNull(t.rows[i][col])

\* Series.str.replace(old, new): a text cell is replaced in, every other
\* cell of an object column becomes NaN.
StrAccessorReplace(t, col, old, new) ==
    ApplyCol(t, col, LAMBDA c : IF IsStr(c) THEN Str(StrReplace(c.s, old, new)) ELSE NaN)

---------------------------------------------------------------------------
(* The column cleaners and row filters of DataCleaning                      *)

\* Faulty variant of null_representations: 'N/A' is left out.
null_representations_without_na == {<<"N", "U", "L", "L">>, <<"N", "o", "n", "e">>, <<>>}

null_representations ==
    {<<"N", "U", "L", "L">>, <<"N", "o", "n", "e">>, <<"N", "/", "A">>, <<>>}

\* Faulty variant of standardize_nulls: df.replace(..., regex=True), under
\* which the empty pattern matches every text.
standardize_nulls_regex(t) ==
    [t EXCEPT !.rows = [i \in 1..Len(t.rows) |->
                           [c \in t.cols |-> IF IsStr(t.rows[i][c]) THEN NaN
                                             ELSE t.rows[i][c]]]]

\* df.replace(null_representations, np.nan) then df.where(pd.notnull(df), np.nan)
standardize_nulls(t) ==
    LET replaced(c) == IF IsStr(c) /\ c.s \in null_representations THEN NaN ELSE c
        where(c) == IF ~IsNull(c) THEN c ELSE NaN
    IN  [t EXCEPT !.rows = [i \in 1..Len(t.rows) |->
                               [c \in t.cols |-> where(replaced(t.rows[i][c]))]]]

clean_address(t) == StrAccessorReplace(t, "address", <<"\n">>, <<",">>)

\* Faulty variant of clean_country_columns: the country_code is tested for its
\* length only.
clean_country_columns_length_only(t) ==
    LET country(x) == IF ~AnyDigit(PyStr(x)) THEN x ELSE NaN
        code(x) == IF Len(PyStr(x)) <= 3 THEN x ELSE NaN
        fix(x) == IF x = Str(<<"G", "G", "B">>) THEN Str(<<"G", "B">>) ELSE x
    IN  ApplyCol(ApplyCol(ApplyCol(t, "country", country), "country_code", code),
                 "country_code", fix)

clean_country_columns(t) ==
    LET country(x) == IF ~AnyDigit(PyStr(x)) THEN x ELSE NaN
        code(x) == IF ~AnyDigit(PyStr(x)) /\ Len(PyStr(x)) <= 3 THEN x ELSE NaN
        fix(x) == IF x = Str(<<"G", "G", "B">>) THEN Str(<<"G", "B">>) ELSE x
    IN  ApplyCol(ApplyCol(ApplyCol(t, "country", country), "country_code", code),
                 "country_code", fix)

clean_phone_number(t) ==
    ApplyCol(t, "phone_number", LAMBDA x : Str(DigitsOnly(PyStr(x))))

clean_card_number(t) ==
    ApplyCol(t, "card_number",
             LAMBDA x : IF IsStr(x) THEN Str(StrReplace(x.s, <<"?">>, <<>>)) ELSE x)

\* Faulty variant of is_invalid_pattern: len(val) >= 10 for len(val) == 10.
is_invalid_pattern_min_length(val) ==
    IsStr(val) /\ Len(val.s) >= 10 /\ isalnum(val.s) /\ ~isdigit(val.s) /\ ~isalpha(val.s)

\* The nested is_invalid_pattern of remove_invalid_rows and of
\* remove_invalid_rows_date_events_data (the two bodies are the same text).
is_invalid_pattern(val) ==
    IsStr(val) /\ Len(val.s) = 10 /\ isalnum(val.s) /\ ~isdigit(val.s) /\ ~isalpha(val.s)

\* any(is_invalid_pattern(val) for val in row)
RowIsInvalid(t, row) == \E c \in t.cols : is_invalid_pattern(row[c])

remove_invalid_rows(t) == FilterRows(t, LAMBDA row : ~RowIsInvalid(t, row))

remove_invalid_rows_date_events_data(t) ==
    FilterRows(t, LAMBDA row : ~RowIsInvalid(t, row))

merge_latitude_columns(t) ==
    LET combine_first(row) ==
            [row EXCEPT !["latitude"] = IF ~IsNull(@) THEN @ ELSE row["lat"]]
    IN  DropCols([t EXCEPT !.rows = [i \in 1..Len(t.rows) |-> combine_first(t.rows[i])]],
                 {"lat"})

\* Faulty variant of clean_categorical_columns: locality is given the digit
\* test as well.
clean_categorical_columns_and_locality(t) ==
    LET nodigit(x) == IF ~AnyDigit(PyStr(x)) THEN x ELSE NaN
        code(x) == IF ~AnyDigit(PyStr(x)) /\ Len(PyStr(x)) <= 3 THEN x ELSE NaN
        typo(x) == IF IsStr(x) THEN Str(StrReplace(x.s, <<"e", "e">>, <<>>)) ELSE x
    IN  ApplyCol(ApplyCol(ApplyCol(ApplyCol(ApplyCol(t, "store_type", nodigit),
                                            "country_code", code),
                                   "continent", typo),
                          "continent", nodigit),
                 "locality", nodigit)

clean_categorical_columns(t) ==
    LET nodigit(x) == IF ~AnyDigit(PyStr(x)) THEN x ELSE NaN
        code(x) == IF ~AnyDigit(PyStr(x)) /\ Len(PyStr(x)) <= 3 THEN x ELSE NaN
        typo(x) == IF IsStr(x) THEN Str(StrReplace(x.s, <<"e", "e">>, <<>>)) ELSE x
    IN  ApplyCol(ApplyCol(ApplyCol(ApplyCol(t, "store_type", nodigit),
                                   "country_code", code),
                          "continent", typo),
                 "continent", nodigit)

clean_locality(t) ==
    ApplyCol(t, "locality", LAMBDA x : IF IsStr(x) /\ ~AnyDigit(x.s) THEN x ELSE NaN)

clean_store_code(t) == t

clean_staff_numbers(t) ==
    LET digits(x) == IF ~IsNull(x) THEN Str(DigitsOnly(PyStr(x))) ELSE x
        empty(x) == IF x = Str(<<>>) THEN NaN ELSE x
    IN  ApplyCol(ApplyCol(t, "staff_numbers", digits), "staff_numbers", empty)

\* df.drop(columns=columns_to_drop, errors='ignore')
drop_columns(t, columns_to_drop) == DropCols(t, columns_to_drop)

preserved_store_code == <<"W", "E", "B", "-", "1", "3", "8", "8", "0", "1", "2", "W">>

remove_invalid_rows_excluding_store_code(t) ==
    LET preserved_row_condition(row) == row["store_code"] = Str(preserved_store_code)
    IN  FilterRows(t, LAMBDA row :
                        ~IsNull(row["store_code"]) \/ preserved_row_condition(row))

---------------------------------------------------------------------------
(* Dates: pd.to_datetime and parse_non_standard_dates                       *)

IsLeap(y) == (y % 4 = 0 /\ y % 100 # 0) \/ y % 400 = 0

DaysInMonth(y, m) ==
    IF m = 2 THEN (IF IsLeap(y) THEN 29 ELSE 28)
    ELSE IF m \in {4, 6, 9, 11} THEN 30 ELSE 31

\* A calendar date that a pandas Timestamp (datetime64[ns]) can hold:
\* 1677-09-22 .. 2262-04-11.
ValidDate(y, m, d) ==
    /\ m \in 1..12
    /\ d \in 1..DaysInMonth(y, m)
    /\ \/ y \in 1678..2261
       \/ y = 1677 /\ (m > 9 \/ (m = 9 /\ d >= 22))
       \/ y = 2262 /\ (m < 4 \/ (m = 4 /\ d <= 11))

\* The outcome of a parse that raised (ValueError, TypeError, OutOfBounds...).
Raised == [k |-> "raise"]

\* A strict parse: the date when it is one, an exception otherwise.
DateOrRaise(y, m, d) == IF ValidDate(y, m, d) THEN Date(y, m, d) ELSE Raised

\* A parse under errors='coerce': the date when it is one, NaT otherwise.
DateOrNaT(y, m, d) == IF ValidDate(y, m, d) THEN Date(y, m, d) ELSE NaN

AllDigits(s, i, j) == \A p \in i..j : CharIsDigit(s[p])

AllWord(s, i, j) == \A p \in i..j : CharIsWord(s[p])

Field(s, i, j) == DigitsToInt(SubSeq(s, i, j))

\* '$' of module re: the end of the text, or just before a final newline.
Dollar(s, Shape(_)) ==
    \/ Shape(s)
    \/ Len(s) > 0 /\ s[Len(s)] = "\n" /\ Shape(SubSeq(s, 1, Len(s) - 1))

\* \d{4}-\d{2}-\d{2}
ShapeYMDDash(s) ==
    /\ Len(s) = 10
    /\ AllDigits(s, 1, 4) /\ s[5] = "-" /\ AllDigits(s, 6, 7)
    /\ s[8] = "-" /\ AllDigits(s, 9, 10)

\* \d{4}/\d{2}/\d{2}
ShapeYMDSlash(s) ==
    /\ Len(s) = 10
    /\ AllDigits(s, 1, 4) /\ s[5] = "/" /\ AllDigits(s, 6, 7)
    /\ s[8] = "/" /\ AllDigits(s, 9, 10)

\* \d{2}/\d{2}/\d{4}
ShapeDMYSlash(s) ==
    /\ Len(s) = 10
    /\ AllDigits(s, 1, 2) /\ s[3] = "/" /\ AllDigits(s, 4, 5)
    /\ s[6] = "/" /\ AllDigits(s, 7, 10)

\* Faulty variant of ShapeMY: the pattern without its '$'.
ShapeMY_unanchored(s) ==
    Len(s) >= 5 /\ AllDigits(s, 1, 2) /\ s[3] = "/" /\ AllDigits(s, 4, 5)

\* \d{2}/\d{2}
ShapeMY(s) == Len(s) = 5 /\ AllDigits(s, 1, 2) /\ s[3] = "/" /\ AllDigits(s, 4, 5)

\* \w+ \d{4} \d{2}
ShapeNameYearDay(s) ==
    /\ Len(s) >= 9
    /\ AllWord(s, 1, Len(s) - 8)
    /\ s[Len(s) - 7] = " " /\ AllDigits(s, Len(s) - 6, Len(s) - 3)
    /\ s[Len(s) - 2] = " " /\ AllDigits(s, Len(s) - 1, Len(s))

\* \d{4} \w+ \d{2}
ShapeYearNameDay(s) ==
    /\ Len(s) >= 9
    /\ AllDigits(s, 1, 4) /\ s[5] = " "
    /\ AllWord(s, 6, Len(s) - 3)
    /\ s[Len(s) - 2] = " " /\ AllDigits(s, Len(s) - 1, Len(s))

MonthNames ==
    << <<"j", "a", "n", "u", "a", "r", "y">>,
       <<"f", "e", "b", "r", "u", "a", "r", "y">>,
       <<"m", "a", "r", "c", "h">>,
       <<"a", "p", "r", "i", "l">>,
       <<"m", "a", "y">>,
       <<"j", "u", "n", "e">>,
       <<"j", "u", "l", "y">>,
       <<"a", "u", "g", "u", "s", "t">>,
       <<"s", "e", "p", "t", "e", "m", "b", "e", "r">>,
       <<"o", "c", "t", "o", "b", "e", "r">>,
       <<"n", "o", "v", "e", "m", "b", "e", "r">>,
       <<"d", "e", "c", "e", "m", "b", "e", "r">> >>

\* %B of strptime: the number of the month a full month name names (any
\* case), 0 when the word names none.
MonthOfName(w) ==
    IF \E i \in 1..12 : MonthNames[i] = lower(w)
    THEN CHOOSE i \in 1..12 : MonthNames[i] = lower(w)
    ELSE 0

\* The month a word names for dateutil: a full name or its first three letters.
MonthOfWord(w) ==
    IF MonthOfName(w) # 0 THEN MonthOfName(w)
    ELSE IF \E i \in 1..12 : SubSeq(MonthNames[i], 1, 3) = lower(w)
         THEN CHOOSE i \in 1..12 : SubSeq(MonthNames[i], 1, 3) = lower(w)
         ELSE 0

\* %y of strptime: 00..68 are 2000..2068, 69..99 are 1969..1999.
TwoDigitYear(yy) == IF yy <= 68 THEN 2000 + yy ELSE 1900 + yy

\* pd.to_datetime(s, format=fmt) of a text s that has the shape of fmt; a
\* text with a final newline does not satisfy the format.
Strptime(fmt, s) ==
    CASE fmt = "%Y-%m-%d" /\ ShapeYMDDash(s) ->
            DateOrRaise(Field(s, 1, 4), Field(s, 6, 7), Field(s, 9, 10))
      [] fmt = "%Y/%m/%d" /\ ShapeYMDSlash(s) ->
            DateOrRaise(Field(s, 1, 4), Field(s, 6, 7), Field(s, 9, 10))
      [] fmt = "%d/%m/%Y" /\ ShapeDMYSlash(s) ->
            DateOrRaise(Field(s, 7, 10), Field(s, 4, 5), Field(s, 1, 2))
      [] fmt = "%m/%y" /\ ShapeMY(s) ->
            DateOrRaise(TwoDigitYear(Field(s, 4, 5)), Field(s, 1, 2), 1)
      [] fmt = "%B %Y %d" /\ ShapeNameYearDay(s) ->
            DateOrRaise(Field(s, Len(s) - 6, Len(s) - 3),
                        MonthOfName(SubSeq(s, 1, Len(s) - 8)),
                        Field(s, Len(s) - 1, Len(s)))
      [] fmt = "%Y %B %d" /\ ShapeYearNameDay(s) ->
            DateOrRaise(Field(s, 1, 4),
                        MonthOfName(SubSeq(s, 6, Len(s) - 3)),
                        Field(s, Len(s) - 1, Len(s)))
      [] OTHER -> Raised

\* The generic parser on a text, pd.to_datetime(s, errors='coerce'), for the
\* text shapes of this model:
\*   YYYY-MM-DD and YYYY/MM/DD are read year first;
\*   NN/NN/YYYY is read month first, and day first only when the first
\*     number is above 12 and the second is not;
\*   NN/NN is a month and a day of no year, which no Timestamp holds, unless
\*     one number is above 31 and is then the year;
\*   a month name (or its three-letter short form) with a 4-digit year and
\*     a 2-digit day, in either order, is that date;
\*   every other text is not a date.
GenericParse(s) ==
    CASE ShapeYMDDash(s) \/ ShapeYMDSlash(s) ->
            DateOrNaT(Field(s, 1, 4), Field(s, 6, 7), Field(s, 9, 10))
      [] ShapeDMYSlash(s) ->
            LET a == Field(s, 1, 2)
                b == Field(s, 4, 5)
                y == Field(s, 7, 10)
            IN  IF a > 12 /\ b <= 12 THEN DateOrNaT(y, b, a) ELSE DateOrNaT(y, a, b)
      [] ShapeMY(s) ->
            LET a == Field(s, 1, 2)
                b == Field(s, 4, 5)
                century(yy) == IF yy < 76 THEN 2000 + yy ELSE 1900 + yy
            IN  IF a > 31 THEN DateOrNaT(century(a), b, 1)
                ELSE IF b > 31 THEN DateOrNaT(century(b), a, 1)
                ELSE NaN
      [] ShapeNameYearDay(s) ->
            DateOrNaT(Field(s, Len(s) - 6, Len(s) - 3),
                      MonthOfWord(SubSeq(s, 1, Len(s) - 8)),
                      Field(s, Len(s) - 1, Len(s)))
      [] ShapeYearNameDay(s) ->
            DateOrNaT(Field(s, 1, 4),
                      MonthOfWord(SubSeq(s, 6, Len(s) - 3)),
                      Field(s, Len(s) - 1, Len(s)))
      [] OTHER -> NaN

\* pd.to_datetime(x, errors='coerce') of a scalar cell: a number is that many
\* nanoseconds after 1970-01-01.
to_datetime_coerce(x) ==
    CASE x.k = "str" -> GenericParse(x.s)
      [] x.k = "num" -> Timestamp(1970, 1, 1, 0, 0, 0, x.n \div Pow10(x.e))
      [] x.k = "date" -> x
      [] OTHER -> NaN

\* The body of the try block of parse_non_standard_dates: re.match on a value
\* that is no text raises TypeError.
ParseRules(date_str) ==
    IF ~IsStr(date_str) THEN Raised
    ELSE LET s == date_str.s
         IN  IF Dollar(s, ShapeYMDDash) THEN Strptime("%Y-%m-%d", s)
             ELSE IF Dollar(s, ShapeYMDSlash) THEN Strptime("%Y/%m/%d", s)
             ELSE IF Dollar(s, ShapeDMYSlash) THEN Strptime("%d/%m/%Y", s)
             ELSE IF Dollar(s, ShapeMY) THEN Strptime("%m/%y", s)
             ELSE IF Dollar(s, ShapeNameYearDay) THEN Strptime("%B %Y %d", s)
             ELSE IF Dollar(s, ShapeYearNameDay) THEN Strptime("%Y %B %d", s)
             ELSE to_datetime_coerce(date_str)

\* Faulty variant of parse_non_standard_dates: no try/except around the rules.
parse_non_standard_dates_no_except(date_str) == ParseRules(date_str)

\* try: ... except Exception: return np.nan
parse_non_standard_dates(date_str) ==
    LET r == ParseRules(date_str) IN IF r = Raised THEN NaN ELSE r

\* The lambda of clean_dates, applied to one cell.
CleanDateCell(x) ==
    IF IsNull(to_datetime_coerce(x)) THEN parse_non_standard_dates(x)
    ELSE to_datetime_coerce(x)

RECURSIVE clean_dates(_, _)
\* for col in date_columns: df[col] = df[col].apply(...)
clean_dates(t, date_columns) ==
    IF date_columns = <<>> THEN t
    ELSE clean_dates(ApplyCol(t, Head(date_columns), CleanDateCell), Tail(date_columns))

---------------------------------------------------------------------------
(* clean_weight_column and convert_data_types                               *)

None == [k |-> "none"]

\* Where the first match of \d+\.?\d* starts in s (0: no match), and where
\* it ends: the digits, one '.' if it follows, the digits after it.
FirstDigit(s) ==
    IF AnyDigit(s) THEN CHOOSE i \in 1..Len(s) :
                            CharIsDigit(s[i]) /\ \A j \in 1..(i - 1) : ~CharIsDigit(s[j])
    ELSE 0

RECURSIVE DigitRunEnd(_, _)
\* The last position of the run of digits of s that starts at i (i - 1 when
\* s has no digit at i).
DigitRunEnd(s, i) ==
    IF i <= Len(s) /\ CharIsDigit(s[i]) THEN DigitRunEnd(s, i + 1) ELSE i - 1

NumberEnd(s, i) ==
    LET a == DigitRunEnd(s, i)
    IN  IF a < Len(s) /\ s[a + 1] = "." THEN DigitRunEnd(s, a + 2) ELSE a

\* float(number) of a text matched by \d+\.?\d*
ParseFloat(number) ==
    LET a == DigitRunEnd(number, 1)
        frac == SubSeq(number, a + 2, Len(number))
    IN  Num(DigitsToInt(SubSeq(number, 1, a) \o frac), Len(frac))

\* extract_number_unit: [number, unit] of a weight cell.  parts[1] is the
\* first match and ''.join(parts[2:]) is all the text after it.
extract_number_unit(s) ==
    IF IsNull(s) THEN <<None, None>>
    ELSE LET text == StrReplace(s.s, <<" ">>, <<>>)
             i == FirstDigit(text)
             j == NumberEnd(text, i)
         IN  IF i = 0 THEN <<None, None>>
             ELSE <<Str(SubSeq(text, i, j)),
                    Str(strip(lower(SubSeq(text, j + 1, Len(text)))))>>

\* Faulty variant of normalize_units: 'g' is looked for before 'kg'.
normalize_units_g_first(unit) ==
    IF unit = None \/ unit = Str(<<>>) THEN None
    ELSE LET u == strip(lower(unit.s))
         IN  IF Contains(u, <<"g">>) THEN Str(<<"g">>)
             ELSE IF Contains(u, <<"k", "g">>) THEN Str(<<"k", "g">>)
             ELSE IF Contains(u, <<"m", "l">>) THEN Str(<<"g">>)
             ELSE IF Contains(u, <<"l", "i", "t", "e", "r">>) \/ Contains(u, <<"l", "i", "t", "r", "e">>)
             THEN Str(<<"l", "i", "t", "e", "r", "s">>)
             ELSE None

normalize_units(unit) ==
    IF unit = None \/ unit = Str(<<>>) THEN None
    ELSE LET u == strip(lower(unit.s))
         IN  IF Contains(u, <<"k", "g">>) \/ Contains(u, <<"k", "i", "l", "o", "g", "r", "a", "m">>)
             THEN Str(<<"k", "g">>)
             ELSE IF Contains(u, <<"g">>) \/ Contains(u, <<"g", "r", "a", "m">>)
             THEN Str(<<"g">>)
             ELSE IF \/ Contains(u, <<"m", "l">>)
                     \/ Contains(u, <<"m", "i", "l", "l", "i", "l", "i", "t", "e", "r">>)
                     \/ Contains(u, <<"m", "i", "l", "l", "i", "l", "i", "t", "r", "e">>)
             THEN Str(<<"g">>)
             ELSE IF \/ Contains(u, <<"l", "i", "t", "e", "r">>)
                     \/ Contains(u, <<"l", "i", "t", "e", "r", "s">>)
                     \/ Contains(u, <<"l", "i", "t", "r", "e">>)
                     \/ Contains(u, <<"l", "i", "t", "r", "e", "s">>)
             THEN Str(<<"l", "i", "t", "e", "r", "s">>)
             ELSE None

\* Faulty variant of convert_to_kilograms: a unit that is not recognized is
\* taken for kilograms.
convert_to_kilograms_any_unit(number, unit) ==
    IF number = None THEN NaN
    ELSE LET n == ParseFloat(number.s)
         IN  IF unit = Str(<<"g">>) THEN Num(n.n, n.e + 3) ELSE n

\* convert_to_kilograms: float(None) raises TypeError, which is caught.
convert_to_kilograms(number, unit) ==
    IF number = None THEN NaN
    ELSE LET n == ParseFloat(number.s)
         IN  IF unit = Str(<<"g">>) THEN Num(n.n, n.e + 3)
             ELSE IF unit = Str(<<"k", "g">>) THEN n
             ELSE IF unit = Str(<<"l", "i", "t", "e", "r", "s">>) THEN n
             ELSE NaN

\* The weight_kg of one weight cell.
WeightKg(s) ==
    LET nu == extract_number_unit(s)
    IN  convert_to_kilograms(nu[1], normalize_units(nu[2]))

\* Faulty variant of clean_weight_column: only weight is dropped.
clean_weight_column_keeps_parts(t) ==
    LET out == (t.cols \cup {"number", "unit", "weight_kg"}) \ {"weight"}
    IN  Table(out,
              [i \in 1..Len(t.rows) |->
                  [c \in out |->
                      CASE c = "weight_kg" -> WeightKg(t.rows[i]["weight"])
                        [] c = "number" -> extract_number_unit(t.rows[i]["weight"])[1]
                        [] c = "unit" -> normalize_units(extract_number_unit(t.rows[i]["weight"])[2])
                        [] OTHER -> t.rows[i][c]]])

\* Adds number and unit, sets weight_kg, drops weight, number and unit.
clean_weight_column(t) ==
    LET out == (t.cols \cup {"number", "unit", "weight_kg"}) \ {"weight", "number", "unit"}
    IN  Table(out,
              [i \in 1..Len(t.rows) |->
                  [c \in out |-> IF c = "weight_kg" THEN WeightKg(t.rows[i]["weight"])
                                 ELSE t.rows[i][c]]])

\* s.replace(' ', '') of a weight cell that is neither missing nor a text
\* raises AttributeError.
WeightCellRaises(t) ==
    \E i \in 1..Len(t.rows) : ~IsNull(t.rows[i]["weight"]) /\ ~IsStr(t.rows[i]["weight"])

\* pd.to_numeric(x, errors='coerce') of one cell: a text of digits with at
\* most one '.' among them (spaces around it allowed) is that number, any
\* other text is NaN; a number is itself.
ToNumeric(x) ==
    CASE x.k = "num" -> x
      [] x.k = "str" ->
            LET s == strip(x.s)
            IN  IF Len(s) > 0 /\ CharIsDigit(s[1]) /\ NumberEnd(s, 1) = Len(s)
                THEN ParseFloat(s)
                ELSE NaN
      [] OTHER -> NaN

RECURSIVE convert_data_types(_, _)
convert_data_types(t, columns) ==
    IF columns = <<>> THEN t
    ELSE convert_data_types(ApplyCol(t, Head(columns), ToNumeric), Tail(columns))

\* df.rename(columns={old: new}); a column that is absent is not an error.
RenameCol(t, old, new) ==
    IF old \notin t.cols THEN t
    ELSE LET out == (t.cols \ {old}) \cup {new}
         IN  Table(out, [i \in 1..Len(t.rows) |->
                            [c \in out |-> IF c = new THEN t.rows[i][old] ELSE t.rows[i][c]]])

---------------------------------------------------------------------------
(* The date-event stages                                                    *)

\* A JSON object is a sequence of <<key, value>> pairs with distinct keys,
\* in the order of the document.
Keys(m) == [i \in 1..Len(m) |-> m[i][1]]

HasKey(m, key) == \E i \in 1..Len(m) : m[i][1] = key

Lookup(m, key) == m[CHOOSE i \in 1..Len(m) : m[i][1] = key][2]

EventFields == <<"timestamp", "month", "year", "day", "time_period", "date_uuid">>

\* json_data[field][key] raises KeyError for a field or a key that is absent;
\* the fields are only looked at inside the loop over timestamp's keys.
ReformatRaises(json_data) ==
    \/ ~HasKey(json_data, "timestamp")
    \/ \E i \in 1..Len(Lookup(json_data, "timestamp")) :
          \E f \in Range(EventFields) :
             \/ ~HasKey(json_data, f)
             \/ ~HasKey(Lookup(json_data, f), Keys(Lookup(json_data, "timestamp"))[i])

\* Faulty variant of reformat_json_to_df: 'day' is read from the month mapping.
reformat_json_to_df_day_of_month(json_data) ==
    LET keys == Keys(Lookup(json_data, "timestamp"))
    IN  IF keys = <<>> THEN Table({}, <<>>)
        ELSE Table(Range(EventFields),
                   [i \in 1..Len(keys) |->
                       [f \in Range(EventFields) |->
                           Lookup(Lookup(json_data, IF f = "day" THEN "month" ELSE f),
                                  keys[i])]])

\* pd.DataFrame(records): no record gives a frame with no column.
reformat_json_to_df(json_data) ==
    LET keys == Keys(Lookup(json_data, "timestamp"))
    IN  IF keys = <<>> THEN Table({}, <<>>)
        ELSE Table(Range(EventFields),
                   [i \in 1..Len(keys) |->
                       [f \in Range(EventFields) |->
                           Lookup(Lookup(json_data, f), keys[i])]])

NullSubset == {"timestamp", "day", "month", "year"}

\* df.replace('NULL', pd.NA) then df.dropna(subset=[...])
remove_null_rows(t) ==
    LET na(c) == IF c = Str(<<"N", "U", "L", "L">>) THEN NaN ELSE c
        replaced == [t EXCEPT !.rows = [i \in 1..Len(t.rows) |->
                                           [c \in t.cols |-> na(t.rows[i][c])]]]
    IN  FilterRows(replaced, LAMBDA row : \A c \in NullSubset : ~IsNull(row[c]))

\* The least position p >= from with s[p] = ch; 0 when there is none.
IndexOf(s, ch, from) ==
    IF \E p \in from..Len(s) : s[p] = ch
    THEN CHOOSE p \in from..Len(s) : s[p] = ch /\ \A q \in from..(p - 1) : s[q] # ch
    ELSE 0

\* HH:MM:SS
ShapeTime(s) ==
    /\ Len(s) = 8
    /\ AllDigits(s, 1, 2) /\ s[3] = ":" /\ AllDigits(s, 4, 5)
    /\ s[6] = ":" /\ AllDigits(s, 7, 8)

\* pd.to_datetime of one text 'Y-M-D HH:MM:SS' (errors='raise'): a 4-digit
\* year, a month and a day of one or two digits and a time of day.
ParseDateTime(s) ==
    LET i == IndexOf(s, "-", 1)
        j == IF i = 0 THEN 0 ELSE IndexOf(s, "-", i + 1)
        k == IF j = 0 THEN 0 ELSE IndexOf(s, " ", j + 1)
    IN  IF k = 0 THEN Raised
        ELSE LET ys == SubSeq(s, 1, i - 1)
                 ms == SubSeq(s, i + 1, j - 1)
                 ds == SubSeq(s, j + 1, k - 1)
                 ts == SubSeq(s, k + 1, Len(s))
             IN  IF /\ Len(ys) = 4 /\ isdigit(ys)
                    /\ Len(ms) \in 1..2 /\ isdigit(ms)
                    /\ Len(ds) \in 1..2 /\ isdigit(ds)
                    /\ ShapeTime(ts)
                    /\ ValidDate(DigitsToInt(ys), DigitsToInt(ms), DigitsToInt(ds))
                    /\ Field(ts, 1, 2) < 24 /\ Field(ts, 4, 5) < 60 /\ Field(ts, 7, 8) < 60
                 THEN Timestamp(DigitsToInt(ys), DigitsToInt(ms), DigitsToInt(ds),
                                Field(ts, 1, 2), Field(ts, 4, 5), Field(ts, 7, 8), 0)
                 ELSE Raised

\* year.astype(str) + '-' + month.astype(str) + '-' + day.astype(str) + ' '
\* + timestamp, of one row; adding a number to a text raises TypeError.
DateTimeText(row) ==
    IF ~IsStr(row["timestamp"]) THEN Raised
    ELSE Str(PyStr(row["year"]) \o <<"-">> \o PyStr(row["month"]) \o <<"-">>
             \o PyStr(row["day"]) \o <<" ">> \o row["timestamp"].s)

DateTimeOfRow(row) ==
    IF DateTimeText(row) = Raised THEN Raised ELSE ParseDateTime(DateTimeText(row).s)

\* pd.to_datetime of the column raises when one row's text is no datetime.
CombineRaises(t) == \E i \in 1..Len(t.rows) : DateTimeOfRow(t.rows[i]) = Raised

combine_datetime_columns(t) ==
    LET out == (t.cols \cup {"datetime"}) \ {"timestamp", "day", "month", "year"}
    IN  Table(out,
              [i \in 1..Len(t.rows) |->
                  [c \in out |-> IF c = "datetime" THEN DateTimeOfRow(t.rows[i])
                                 ELSE t.rows[i][c]]])

---------------------------------------------------------------------------
(* What a stage does to the DataFrame it is given: the set of its possible  *)
(* outcomes, each the DataFrame it returns or the exception it raises.      *)

Ok(t) == [err |-> "none", df |-> t]

Fail(e, t) == [err |-> e, df |-> t]

\* Exceptions that some pandas builds raise and others do not:
\*   the .str accessor on a column in which every cell is missing (the
\*     column is of dtype object on some builds, float64 on others);
\*   ~ applied to what df.apply(..., axis=1) returns for a frame of no row;
\*   df[['number', 'unit']] = ... of what Series.apply returns for no row.
BuildDependentErrors ==
    {"AttributeError (.str of an all-missing column)",
     "TypeError (~ of the apply of no row)",
     "ValueError (setitem of the apply of no row)"}

\* df[col].str of a column with a text works; of a column with no text but
\* a number or a date it raises AttributeError.
StrAccessorOutcomes(t, col, result) ==
    IF HasText(t, col) THEN {Ok(result)}
    ELSE IF ~AllNull(t, col) THEN {Fail("AttributeError", t)}
    ELSE {Ok(result), Fail("AttributeError (.str of an all-missing column)", t)}

\* df.apply(..., axis=1) then df[~invalid_rows]
RowFilterOutcomes(t, result) ==
    IF Len(t.rows) = 0
    THEN {Ok(result), Fail("TypeError (~ of the apply of no row)", t)}
    ELSE {Ok(result)}

KeyError(t) == {Fail("KeyError", t)}

StandardizeNullsOutcomes(t) == {Ok(standardize_nulls(t))}

CleanAddressOutcomes(t) ==
    IF "address" \notin t.cols THEN KeyError(t)
    ELSE StrAccessorOutcomes(t, "address", clean_address(t))

CleanCountryColumnsOutcomes(t) ==
    IF ~({"country", "country_code"} \subseteq t.cols) THEN KeyError(t)
    ELSE {Ok(clean_country_columns(t))}

CleanPhoneNumberOutcomes(t) ==
    IF "phone_number" \notin t.cols THEN KeyError(t) ELSE {Ok(clean_phone_number(t))}

CleanDatesOutcomes(t, date_columns) ==
    IF ~(Range(date_columns) \subseteq t.cols) THEN KeyError(t)
    ELSE {Ok(clean_dates(t, date_columns))}

CleanCardNumberOutcomes(t) ==
    IF "card_number" \notin t.cols THEN KeyError(t) ELSE {Ok(clean_card_number(t))}

RemoveInvalidRowsOutcomes(t) == RowFilterOutcomes(t, remove_invalid_rows(t))

RemoveInvalidRowsDateEventsDataOutcomes(t) ==
    RowFilterOutcomes(t, remove_invalid_rows_date_events_data(t))

MergeLatitudeColumnsOutcomes(t) ==
    IF ~({"latitude", "lat"} \subseteq t.cols) THEN KeyError(t)
    ELSE {Ok(merge_latitude_columns(t))}

CleanCategoricalColumnsOutcomes(t) ==
    IF ~({"store_type", "country_code", "continent"} \subseteq t.cols) THEN KeyError(t)
    ELSE {Ok(clean_categorical_columns(t))}

CleanLocalityOutcomes(t) ==
    IF "locality" \notin t.cols THEN KeyError(t) ELSE {Ok(clean_locality(t))}

CleanStoreCodeOutcomes(t) == {Ok(clean_store_code(t))}

CleanStaffNumbersOutcomes(t) ==
    IF "staff_numbers" \notin t.cols THEN KeyError(t) ELSE {Ok(clean_staff_numbers(t))}

RemoveInvalidRowsExcludingStoreCodeOutcomes(t) ==
    IF "store_code" \notin t.cols THEN KeyError(t)
    ELSE {Ok(remove_invalid_rows_excluding_store_code(t))}

CleanWeightColumnOutcomes(t) ==
    IF "weight" \notin t.cols THEN KeyError(t)
    ELSE IF WeightCellRaises(t) THEN {Fail("AttributeError", t)}
    ELSE IF Len(t.rows) = 0
    THEN {Ok(clean_weight_column(t)), Fail("ValueError (setitem of the apply of no row)", t)}
    ELSE {Ok(clean_weight_column(t))}

\* df['product_price'] = df['product_price'].str.replace(POUND, '')
StripCurrencyOutcomes(t) ==
    IF "product_price" \notin t.cols THEN KeyError(t)
    ELSE StrAccessorOutcomes(t, "product_price",
                             StrAccessorReplace(t, "product_price", <<"POUND">>, <<>>))

ConvertDataTypesOutcomes(t, columns) ==
    IF ~(Range(columns) \subseteq t.cols) THEN KeyError(t)
    ELSE {Ok(convert_data_types(t, columns))}

\* df.rename(columns={'product_price': 'product_price_gbp'}, inplace=True)
RenamePriceOutcomes(t) == {Ok(RenameCol(t, "product_price", "product_price_gbp"))}

columns_to_drop == {"first_name", "last_name", "1"}

DropColumnsOutcomes(t) == {Ok(drop_columns(t, columns_to_drop))}

ReformatJsonToDfOutcomes(json_data, t) ==
    IF ReformatRaises(json_data) THEN KeyError(t) ELSE {Ok(reformat_json_to_df(json_data))}

RemoveNullRowsOutcomes(t) ==
    IF ~(NullSubset \subseteq t.cols) THEN KeyError(t) ELSE {Ok(remove_null_rows(t))}

CombineDatetimeColumnsOutcomes(t) ==
    IF ~({"year", "month", "day", "timestamp"} \subseteq t.cols) THEN KeyError(t)
    ELSE IF \E i \in 1..Len(t.rows) : DateTimeText(t.rows[i]) = Raised
    THEN {Fail("TypeError", t)}
    ELSE IF CombineRaises(t) THEN {Fail("ValueError", t)}
    ELSE {Ok(combine_datetime_columns(t))}

---------------------------------------------------------------------------
(* The pipelines: the stages of each clean_* method, in order               *)

Stages(ds) ==
    CASE ds = "user" ->
            <<"standardize_nulls", "clean_address", "clean_country_columns",
              "clean_phone_number", "clean_dates", "remove_invalid_rows">>
      [] ds = "card" ->
            <<"standardize_nulls", "clean_dates", "remove_invalid_rows",
              "clean_card_number">>
      [] ds = "card_main" ->
            <<"standardize_nulls", "clean_card_number", "clean_dates",
              "remove_invalid_rows">>
      [] ds = "store" ->
            <<"standardize_nulls", "clean_address", "merge_latitude_columns",
              "clean_dates", "clean_categorical_columns", "clean_locality",
              "clean_store_code", "clean_staff_numbers",
              "remove_invalid_rows_excluding_store_code">>
      [] ds = "product" ->
            <<"standardize_nulls", "remove_invalid_rows", "clean_weight_column",
              "strip_currency", "convert_data_types", "rename_price", "clean_dates">>
      [] ds = "order" ->
            <<"standardize_nulls", "remove_invalid_rows", "drop_columns",
              "convert_data_types">>
      [] ds = "date_events" ->
            <<"reformat_json_to_df", "remove_null_rows",
              "remove_invalid_rows_date_events_data", "combine_datetime_columns">>

\* The date_columns argument of the pipeline's call of clean_dates.
DateColumns(ds) ==
    CASE ds = "user" -> <<"date_of_birth", "join_date">>
      [] ds \in {"card", "card_main"} -> <<"date_payment_confirmed">>
      [] ds = "store" -> <<"opening_date">>
      [] ds = "product" -> <<"date_added">>
      [] OTHER -> <<>>

\* The columns argument of the pipeline's call of convert_data_types.
NumericColumns(ds) ==
    CASE ds = "product" -> <<"product_price">>
      [] ds = "order" -> <<"product_quantity">>
      [] OTHER -> <<>>

\* The stage after stage st of pipeline ds; "returned" after the last.
NextStage(ds, st) ==
    LET i == CHOOSE j \in 1..Len(Stages(ds)) : Stages(ds)[j] = st
    IN  IF i = Len(Stages(ds)) THEN "returned" ELSE Stages(ds)[i + 1]

\* Stage st acts with outcome o: it returns o.df, or raises o.err and the
\* pipeline is left.
Act(st, o) ==
    /\ last' = st
    /\ prev' = df
    /\ df' = o.df
    /\ err' = o.err
    /\ pc' = IF o.err = "none" THEN NextStage(dataset, st) ELSE "raised"
    /\ UNCHANGED <<dataset, input>>

StandardizeNulls ==
    /\ pc = "standardize_nulls"
    /\ \E o \in StandardizeNullsOutcomes(df) : Act("standardize_nulls", o)

CleanAddress ==
    /\ pc = "clean_address"
    /\ \E o \in CleanAddressOutcomes(df) : Act("clean_address", o)

CleanCountryColumns ==
    /\ pc = "clean_country_columns"
    /\ \E o \in CleanCountryColumnsOutcomes(df) : Act("clean_country_columns", o)

CleanPhoneNumber ==
    /\ pc = "clean_phone_number"
    /\ \E o \in CleanPhoneNumberOutcomes(df) : Act("clean_phone_number", o)

CleanDates ==
    /\ pc = "clean_dates"
    /\ \E o \in CleanDatesOutcomes(df, DateColumns(dataset)) : Act("clean_dates", o)

CleanCardNumber ==
    /\ pc = "clean_card_number"
    /\ \E o \in CleanCardNumberOutcomes(df) : Act("clean_card_number", o)

RemoveInvalidRows ==
    /\ pc = "remove_invalid_rows"
    /\ \E o \in RemoveInvalidRowsOutcomes(df) : Act("remove_invalid_rows", o)

RemoveInvalidRowsDateEventsData ==
    /\ pc = "remove_invalid_rows_date_events_data"
    /\ \E o \in RemoveInvalidRowsDateEventsDataOutcomes(df) :
          Act("remove_invalid_rows_date_events_data", o)

MergeLatitudeColumns ==
    /\ pc = "merge_latitude_columns"
    /\ \E o \in MergeLatitudeColumnsOutcomes(df) : Act("merge_latitude_columns", o)

CleanCategoricalColumns ==
    /\ pc = "clean_categorical_columns"
    /\ \E o \in CleanCategoricalColumnsOutcomes(df) : Act("clean_categorical_columns", o)

CleanLocality ==
    /\ pc = "clean_locality"
    /\ \E o \in CleanLocalityOutcomes(df) : Act("clean_locality", o)

CleanStoreCode ==
    /\ pc = "clean_store_code"
    /\ \E o \in CleanStoreCodeOutcomes(df) : Act("clean_store_code", o)

CleanStaffNumbers ==
    /\ pc = "clean_staff_numbers"
    /\ \E o \in CleanStaffNumbersOutcomes(df) : Act("clean_staff_numbers", o)

RemoveInvalidRowsExcludingStoreCode ==
    /\ pc = "remove_invalid_rows_excluding_store_code"
    /\ \E o \in RemoveInvalidRowsExcludingStoreCodeOutcomes(df) :
          Act("remove_invalid_rows_excluding_store_code", o)

CleanWeightColumn ==
    /\ pc = "clean_weight_column"
    /\ \E o \in CleanWeightColumnOutcomes(df) : Act("clean_weight_column", o)

StripCurrency ==
    /\ pc = "strip_currency"
    /\ \E o \in StripCurrencyOutcomes(df) : Act("strip_currency", o)

ConvertDataTypes ==
    /\ pc = "convert_data_types"
    /\ \E o \in ConvertDataTypesOutcomes(df, NumericColumns(dataset)) :
          Act("convert_data_types", o)

RenamePrice ==
    /\ pc = "rename_price"
    /\ \E o \in RenamePriceOutcomes(df) : Act("rename_price", o)

DropColumns ==
    /\ pc = "drop_columns"
    /\ \E o \in DropColumnsOutcomes(df) : Act("drop_columns", o)

ReformatJsonToDf ==
    /\ pc = "reformat_json_to_df"
    /\ \E o \in ReformatJsonToDfOutcomes(input, df) : Act("reformat_json_to_df", o)

RemoveNullRows ==
    /\ pc = "remove_null_rows"
    /\ \E o \in RemoveNullRowsOutcomes(df) : Act("remove_null_rows", o)

CombineDatetimeColumns ==
    /\ pc = "combine_datetime_columns"
    /\ \E o \in CombineDatetimeColumnsOutcomes(df) : Act("combine_datetime_columns", o)

---------------------------------------------------------------------------
(* The inputs the pipelines are run on                                      *)

\* The most rows an input table has.
MaxRows == 2

\* Cells that have, or nearly have, the shape is_invalid_pattern looks for.
SignatureSamples ==
    {Str(<<"A", "B", "1", "2", "3", "4", "5", "6", "7", "8">>),
     Str(<<"1", "2", "3", "4", "5", "6", "7", "8", "9", "0">>),
     Str(<<"A", "B", "C", "D", "E", "F", "G", "H", "I", "J">>),
     Str(<<"A", "B", "1", "2", "3", "4", "5", "6", "7">>),
     Str(<<"A", "B", "1", "2", "3", "4", "5", "6", "7", "8", "9">>),
     Str(<<"1", "2", "3", "4", "5", "6", "7", "8", "9", "U+00BD">>),
     Str(<<"U+00BD", "U+00BD", "U+00BD", "U+00BD", "U+00BD", "U+00BD", "U+00BD", "U+00BD", "U+00BD", "U+00BD">>),
     Str(<<"A", "B", "-", "1", "2", "3", "4", "5", "6", "7">>),
     Str(<<"a", "b", "1", "2", "3", "4", "5", "6", "7", "_">>),
     Num(1234567890, 0),
     NaN,
     Str(<<"N", "U", "L", "L">>),
     Str(<<>>)}

\* Cells of a date column.
DateSamples ==
    {Str(<<"2", "0", "2", "3", "-", "0", "4", "-", "0", "1">>),
     Str(<<"2", "0", "2", "3", "/", "0", "4", "/", "0", "1">>),
     Str(<<"0", "1", "/", "0", "4", "/", "2", "0", "2", "3">>),
     Str(<<"1", "3", "/", "0", "4", "/", "2", "0", "2", "3">>),
     Str(<<"0", "4", "/", "1", "3", "/", "2", "0", "2", "3">>),
     Str(<<"9", "9", "/", "9", "9", "/", "2", "0", "2", "3">>),
     Str(<<"3", "1", "/", "0", "4", "/", "2", "0", "2", "3">>),
     Str(<<"2", "9", "/", "0", "2", "/", "2", "0", "2", "4">>),
     Str(<<"0", "4", "/", "2", "3">>),
     Str(<<"1", "3", "/", "2", "3">>),
     Str(<<"O", "c", "t", "o", "b", "e", "r", " ", "2", "0", "2", "3", " ", "1", "6">>),
     Str(<<"2", "0", "2", "3", " ", "O", "c", "t", "o", "b", "e", "r", " ", "1", "6">>),
     Str(<<"F", "o", "o", " ", "2", "0", "2", "3", " ", "0", "1">>),
     Str(<<"2", "0", "2", "3", " ", "F", "o", "o", " ", "0", "1">>),
     Str(<<"2", "0", "2", "3", " ", "2", "0", "2", "3", " ", "1", "6">>),
     Str(<<"n", "o", "t", "-", "a", "-", "d", "a", "t", "e">>),
     Str(<<"2", "0", "2", "3", "-", "1", "3", "-", "4", "5">>),
     Str(<<"1", "6", "0", "0", "-", "0", "1", "-", "0", "1">>),
     Str(<<"N", "o", "n", "e">>),
     Num(5, 0),
     NaN}

\* Cells of the weight column.
WeightSamples ==
    {Str(<<"1", "0", "0", "g">>),
     Str(<<"1", ".", "5", "k", "g">>),
     Str(<<"2", " ", "l", "i", "t", "e", "r", "s">>),
     Str(<<"a", "b", "c">>),
     Str(<<"k", "g", "1", "0", "0">>),
     Str(<<"1", "0", "0">>),
     Str(<<"1", "0", "0", "m", "l">>),
     Str(<<"1", "2", " ", "x", " ", "1", "0", "0", "g">>),
     Str(<<"1", "0", "0", " ", "K", "G">>),
     Str(<<"5", " ", "o", "z">>),
     Str(<<"3", "l", "i", "t", "r", "e">>),
     Str(<<"2", "k", "i", "l", "o", "g", "r", "a", "m">>),
     Str(<<"7", "7", "g", " ", ".">>),
     Str(<<"1", ".", "g">>),
     Str(<<"N", "/", "A">>),
     Str(<<>>),
     NaN}

\* card_main is card data cleaned as main.card_details_clean cleans it.
Datasets == {"user", "card", "card_main", "store", "product", "order", "date_events"}

\* A row of each dataset in which nothing is wrong.
BaseRow(ds) ==
    CASE ds = "user" ->
            [address |-> Str(<<"1", " ", "H", "i", "l", "l", "\n", "Y", "o", "r", "k">>),
             country |-> Str(<<"G", "e", "r", "m", "a", "n", "y">>),
             country_code |-> Str(<<"D", "E">>),
             phone_number |-> Str(<<"+", "4", "9", " ", "3", "0", "-", "1", "2">>),
             date_of_birth |-> Str(<<"1", "9", "9", "0", "-", "0", "1", "-", "3", "1">>),
             join_date |-> Str(<<"2", "0", "2", "0", "-", "0", "2", "-", "2", "9">>),
             user_uuid |-> Str(<<"u", "-", "1">>)]
      [] ds \in {"card", "card_main"} ->
            [card_number |-> Str(<<"4", "0", "1", "2">>),
             date_payment_confirmed |-> Str(<<"2", "0", "2", "0", "-", "0", "2", "-", "2", "9">>),
             card_provider |-> Str(<<"V", "I", "S", "A">>)]
      [] ds = "store" ->
            [address |-> Str(<<"1", " ", "H", "i", "l", "l", "\n", "Y", "o", "r", "k">>),
             lat |-> NaN,
             latitude |-> Str(<<"5", "1", ".", "5">>),
             opening_date |-> Str(<<"2", "0", "2", "0", "-", "0", "2", "-", "2", "9">>),
             store_type |-> Str(<<"L", "o", "c", "a", "l">>),
             country_code |-> Str(<<"G", "B">>),
             continent |-> Str(<<"E", "u", "r", "o", "p", "e">>),
             locality |-> Str(<<"Y", "o", "r", "k">>),
             store_code |-> Str(<<"Y", "O", "-", "1", "A">>),
             staff_numbers |-> Str(<<"3", "4">>)]
      [] ds = "product" ->
            [weight |-> Str(<<"1", ".", "5", "k", "g">>),
             product_price |-> Str(<<"POUND", "3", ".", "5", "0">>),
             date_added |-> Str(<<"2", "0", "2", "0", "-", "0", "2", "-", "2", "9">>),
             product_name |-> Str(<<"T", "e", "a">>)]
      [] ds = "order" ->
            ("1" :> NaN) @@
            [first_name |-> NaN,
             last_name |-> NaN,
             product_quantity |-> Num(3, 0),
             user_uuid |-> Str(<<"u", "-", "1">>)]
      [] ds = "date_events" ->
            [timestamp |-> Str(<<"2", "2", ":", "1", "0", ":", "0", "5">>),
             month |-> Str(<<"7">>),
             year |-> Str(<<"2", "0", "1", "2">>),
             day |-> Str(<<"1", "9">>),
             time_period |-> Str(<<"E", "v", "e", "n", "i", "n", "g">>),
             date_uuid |-> Str(<<"d", "-", "1">>)]

\* The cells each column of a dataset is varied over: <<column, cell>>.
Variants(ds) ==
    CASE ds = "user" ->
            ({"user_uuid"} \X SignatureSamples)
            \cup ({"address"} \X {Str(<<"N", "U", "L", "L">>), NaN, Str(<<"A", "B", "1", "2", "3", "4", "5", "6", "7", "8">>)})
            \cup ({"country"} \X {Str(<<"U", "2", "K">>), NaN, Num(7, 0)})
            \cup ({"country_code"} \X {Str(<<"G", "G", "B">>), Str(<<"U", "S", "A", "1">>), Str(<<"U", "1">>), Str(<<"U", "S", "A">>), Str(<<"G", "B", "R", "T">>), NaN})
            \cup ({"phone_number"} \X {Str(<<"N", "/", "A">>), NaN, Num(4930, 0), Str(<<"c", "a", "l", "l", " ", "m", "e">>)})
            \cup ({"date_of_birth"} \X {Str(<<"0", "1", "/", "0", "4", "/", "2", "0", "2", "3">>), Str(<<"n", "o", "t", "-", "a", "-", "d", "a", "t", "e">>), NaN})
      [] ds \in {"card", "card_main"} ->
            ({"date_payment_confirmed"} \X DateSamples)
            \cup ({"card_number"} \X {Str(<<"?", "4", "0", "1", "2">>), Str(<<"?", "A", "B", "1", "2", "3", "4", "5", "6", "7", "8">>), Str(<<"A", "B", "1", "2", "3", "4", "5", "6", "7", "8">>), Str(<<"?", "?">>), Num(4012, 0), NaN, Str(<<"N", "U", "L", "L">>)})
            \cup ({"card_provider"} \X {Str(<<"A", "B", "1", "2", "3", "4", "5", "6", "7", "8">>), Str(<<"N", "o", "n", "e">>)})
      [] ds = "store" ->
            ({"store_code"} \X {Str(<<"W", "E", "B", "-", "1", "3", "8", "8", "0", "1", "2", "W">>), Str(<<"A", "B", "1", "2", "3", "4", "5", "6", "7", "8">>), NaN, Str(<<"N", "U", "L", "L">>), Str(<<"N", "/", "A">>)})
            \cup ({"address"} \X {Str(<<"A", "B", "1", "2", "3", "4", "5", "6", "7", "8">>), Str(<<"N", "/", "A">>), NaN})
            \cup ({"latitude"} \X {Str(<<"A", "B", "1", "2", "3", "4", "5", "6", "7", "8">>), NaN, Str(<<"N", "/", "A">>)})
            \cup ({"lat"} \X {Str(<<"1", "3", ".", "1">>), Str(<<"A", "B", "1", "2", "3", "4", "5", "6", "7", "8">>)})
            \cup ({"opening_date"} \X {Str(<<"0", "1", "/", "0", "4", "/", "2", "0", "2", "3">>), Str(<<"n", "o", "t", "-", "a", "-", "d", "a", "t", "e">>)})
            \cup ({"store_type"} \X {Str(<<"M", "a", "l", "l", " ", "2">>), NaN})
            \cup ({"country_code"} \X {Str(<<"G", "G", "B">>), Str(<<"U", "S", "A", "1">>)})
            \cup ({"continent"} \X {Str(<<"e", "e", "E", "u", "r", "o", "p", "e">>), Str(<<"E", "u", "r", "o", "p", "e", "1">>), NaN})
            \cup ({"locality"} \X {Str(<<"Y", "o", "r", "k", " ", "2">>), Num(7, 0), NaN})
            \cup ({"staff_numbers"} \X {Str(<<"3", "n", "4">>), Str(<<"J">>), NaN, Num(34, 0)})
      [] ds = "product" ->
            ({"weight"} \X WeightSamples)
            \cup ({"product_price"} \X {Str(<<"3", ".", "5", "0">>), Str(<<"POUND", "x">>), Str(<<"N", "U", "L", "L">>), NaN})
            \cup ({"date_added"} \X {Str(<<"0", "1", "/", "0", "4", "/", "2", "0", "2", "3">>), Str(<<"n", "o", "t", "-", "a", "-", "d", "a", "t", "e">>), NaN})
            \cup ({"product_name"} \X {Str(<<"A", "B", "1", "2", "3", "4", "5", "6", "7", "8">>), Str(<<"A", "B", "C", "D", "E", "F", "G", "H", "I", "J">>)})
      [] ds = "order" ->
            ({"user_uuid"} \X SignatureSamples)
            \cup ({"product_quantity"} \X {Str(<<"3">>), Str(<<"t", "h", "r", "e", "e">>), Str(<<"N", "U", "L", "L">>), NaN})
            \cup ({"first_name"} \X {Str(<<"A", "B", "1", "2", "3", "4", "5", "6", "7", "8">>), Str(<<"A", "l">>)})
            \cup ({"1"} \X {Str(<<"A", "B", "1", "2", "3", "4", "5", "6", "7", "8">>)})
      [] ds = "date_events" ->
            ({"timestamp"} \X {Str(<<"2", "5", ":", "0", "0", ":", "0", "0">>), Str(<<"N", "U", "L", "L">>), NaN, Num(7, 0), Str(<<"A", "B", "1", "2", "3", "4", "5", "6", "7", "8">>)})
            \cup ({"month"} \X {Str(<<"1", "3">>), Str(<<"1", "2">>), Str(<<"N", "U", "L", "L">>), NaN, Str(<<"A", "B", "1", "2", "3", "4", "5", "6", "7", "8">>)})
            \cup ({"year"} \X {Str(<<"a", "b", "c", "d">>), Num(2012, 0), Str(<<"N", "U", "L", "L">>)})
            \cup ({"day"} \X {Str(<<"3", "2">>), Str(<<"1">>), NaN})
            \cup ({"time_period"} \X {Str(<<"N", "U", "L", "L">>), Str(<<"A", "B", "1", "2", "3", "4", "5", "6", "7", "8">>)})
            \cup ({"date_uuid"} \X {Str(<<"A", "B", "1", "2", "3", "4", "5", "6", "7", "8">>), Str(<<"1", "2", "3", "4", "5", "6", "7", "8", "9", "0">>)})

\* Rows in which two cells matter together.
PairedRows(ds) ==
    CASE ds = "store" ->
            {[BaseRow(ds) EXCEPT !["store_code"] = Str(preserved_store_code),
                                 !["address"] = Str(<<"A", "B", "1", "2", "3", "4", "5", "6", "7", "8">>)],
             [BaseRow(ds) EXCEPT !["store_code"] = Str(preserved_store_code),
                                 !["address"] = NaN, !["latitude"] = NaN,
                                 !["locality"] = NaN],
             [BaseRow(ds) EXCEPT !["store_code"] = NaN,
                                 !["address"] = Str(<<"A", "B", "1", "2", "3", "4", "5", "6", "7", "8">>)],
             [BaseRow(ds) EXCEPT !["latitude"] = NaN, !["lat"] = Str(<<"1", "3", ".", "1">>)]}
      [] OTHER -> {}

SampleRows(ds) ==
    {BaseRow(ds)}
    \cup {[BaseRow(ds) EXCEPT ![v[1]] = v[2]] : v \in Variants(ds)}
    \cup PairedRows(ds)

\* The columns the stages of a pipeline name.
ExpectedColumns(ds) == DOMAIN BaseRow(ds)

Restrict(row, cols) == [c \in cols |-> row[c]]

\* The sequences of at most n elements of S.
SeqsUpTo(S, n) == UNION {[1..k -> S] : k \in 0..n}

\* Tables with every expected column, and tables of base rows that lack one.
InputTables(ds) ==
    {Table(ExpectedColumns(ds), rows) : rows \in SeqsUpTo(SampleRows(ds), MaxRows)}
    \cup {Table(ExpectedColumns(ds) \ {c},
                [i \in 1..k |-> Restrict(BaseRow(ds), ExpectedColumns(ds) \ {c})]) :
             c \in ExpectedColumns(ds), k \in 1..MaxRows}

\* The JSON document of a table: one object per field, keyed by the texts
\* '0', '1', ...
JsonOf(rows, fields) ==
    [f \in 1..Len(fields) |->
        <<fields[f], [i \in 1..Len(rows) |-> <<IntText(i - 1), rows[i][fields[f]]>>]>>]

\* Documents in which the fields do not have the same keys: a field without
\* the last key, with one key more, or absent.
SkewedJson(rows, f) ==
    LET good == JsonOf(rows, EventFields)
    IN  {[good EXCEPT ![f] = <<good[f][1], SubSeq(good[f][2], 1, Len(rows) - 1)>>],
         [good EXCEPT ![f] = <<good[f][1], good[f][2] \o << <<<<"x">>, Str(<<"7">>)>> >> >>],
         SelectSeq(good, LAMBDA pair : pair[1] # EventFields[f])}

InputJson ==
    {JsonOf(rows, EventFields) : rows \in SeqsUpTo(SampleRows("date_events"), MaxRows)}
    \cup UNION {SkewedJson([i \in 1..k |-> BaseRow("date_events")], f) :
                   f \in 1..Len(EventFields), k \in 1..MaxRows}

NoTable == Table({}, <<>>)

Init ==
    /\ dataset \in Datasets
    /\ input \in IF dataset = "date_events" THEN InputJson ELSE InputTables(dataset)
    /\ df = IF dataset = "date_events" THEN NoTable ELSE input
    /\ prev = df
    /\ last = "none"
    /\ pc = Stages(dataset)[1]
    /\ err = "none"

Next ==
    \/ StandardizeNulls
    \/ CleanAddress
    \/ CleanCountryColumns
    \/ CleanPhoneNumber
    \/ CleanDates
    \/ CleanCardNumber
    \/ RemoveInvalidRows
    \/ RemoveInvalidRowsDateEventsData
    \/ MergeLatitudeColumns
    \/ CleanCategoricalColumns
    \/ CleanLocality
    \/ CleanStoreCode
    \/ CleanStaffNumbers
    \/ RemoveInvalidRowsExcludingStoreCode
    \/ CleanWeightColumn
    \/ StripCurrency
    \/ ConvertDataTypes
    \/ RenamePrice
    \/ DropColumns
    \/ ReformatJsonToDf
    \/ RemoveNullRows
    \/ CombineDatetimeColumns

Spec == Init /\ [][Next]_vars

---------------------------------------------------------------------------
(* Properties                                                               *)

Returned(st) == last = st /\ err = "none"

RowFilters == {"remove_invalid_rows", "remove_invalid_rows_date_events_data"}

\* A text of exactly 10 characters, all letters or digits, with at least one
\* digit and at least one letter.
MixedTen(c) ==
    /\ IsStr(c) /\ Len(c.s) = 10
    /\ \A i \in 1..Len(c.s) : CharIsAlnum(c.s[i])
    /\ \E i \in 1..Len(c.s) : CharIsDigit(c.s[i])
    /\ \E i \in 1..Len(c.s) : CharIsAlpha(c.s[i])

\* A text of exactly 10 alphanumeric characters that are neither all digits
\* nor all letters.
NotPureTen(c) ==
    /\ IsStr(c) /\ Len(c.s) = 10
    /\ \A i \in 1..Len(c.s) : CharIsAlnum(c.s[i])
    /\ \E i \in 1..Len(c.s) : ~CharIsDigit(c.s[i])
    /\ \E i \in 1..Len(c.s) : ~CharIsAlpha(c.s[i])

\* C1 as stated: remove_invalid_rows and remove_invalid_rows_date_events_data
\* drop a row if and only if one of its cells is a text of exactly 10
\* characters, all letters or digits, with at least one digit and at least
\* one letter.  It fails for a cell such as ten characters '123456789' and
\* U+00BD: alphanumeric, not all digits, not all letters, and without a letter.
C1_DropsIffDigitAndLetter ==
    (last \in RowFilters /\ err = "none") =>
        df.rows = SelectSeq(prev.rows, LAMBDA row : ~\E c \in prev.cols : MixedTen(row[c]))

\* C1 amended: when remove_invalid_rows (or its duplicate) returns, it has
\* dropped a row if and only if one of its cells is a text of exactly 10
\* characters, all alphanumeric (str.isalnum), that is neither all digits
\* (str.isdigit) nor all letters (str.isalpha); every other row is kept.
\* 'AB12345678' drops its row; '1234567890', 'ABCDEFGHIJ' and 'AB1234567'
\* do not.
C1_DropsIffNotPureAlnumTen ==
    (last \in RowFilters /\ err = "none") =>
        /\ df.rows = SelectSeq(prev.rows, LAMBDA row : ~\E c \in prev.cols : NotPureTen(row[c]))
        /\ NotPureTen(Str(<<"A", "B", "1", "2", "3", "4", "5", "6", "7", "8">>))
        /\ ~NotPureTen(Str(<<"1", "2", "3", "4", "5", "6", "7", "8", "9", "0">>))
        /\ ~NotPureTen(Str(<<"A", "B", "C", "D", "E", "F", "G", "H", "I", "J">>))
        /\ ~NotPureTen(Str(<<"A", "B", "1", "2", "3", "4", "5", "6", "7">>))

\* A filter has dropped a row for its 'AB12345678' and kept a row that holds
\* '1234567890'.
C1_Witness ==
    /\ last = "remove_invalid_rows" /\ err = "none"
    /\ Len(prev.rows) = 2 /\ Len(df.rows) = 1
    /\ \E c \in prev.cols : prev.rows[1][c] = Str(<<"A", "B", "1", "2", "3", "4", "5", "6", "7", "8">>)
    /\ \E c \in df.cols : df.rows[1][c] = Str(<<"1", "2", "3", "4", "5", "6", "7", "8", "9", "0">>)

\* C2 as stated: remove_invalid_rows_excluding_store_code keeps every row
\* whose store_code is 'WEB-1388012W' and drops every other row that has a
\* cell with the 10-character signature or a missing store_code.  The code
\* looks at store_code only and keeps a row with such a cell.
C2_DropsSignatureRows ==
    Returned("remove_invalid_rows_excluding_store_code") =>
        df.rows = SelectSeq(prev.rows, LAMBDA row :
                     \/ row["store_code"] = Str(preserved_store_code)
                     \/ /\ ~IsNull(row["store_code"])
                        /\ ~\E c \in prev.cols : NotPureTen(row[c]))

\* The day-first reading of a text DD/MM/YYYY.
DayFirst(s) == Date(Field(s, 7, 10), Field(s, 4, 5), Field(s, 1, 2))

\* C3 as stated: clean_dates turns a text DD/MM/YYYY that names a date into
\* that date read day first.  The code asks the generic parser first, which
\* reads '01/04/2023' month first: 2023-01-04.
C3_DayFirst ==
    Returned("clean_dates") =>
        \A i \in 1..Len(prev.rows) : \A c \in Range(DateColumns(dataset)) :
            (/\ IsStr(prev.rows[i][c])
             /\ ShapeDMYSlash(prev.rows[i][c].s)
             /\ ValidDate(Field(prev.rows[i][c].s, 7, 10), Field(prev.rows[i][c].s, 4, 5),
                          Field(prev.rows[i][c].s, 1, 2)))
            => df.rows[i][c] = DayFirst(prev.rows[i][c].s)

\* C4: clean_dates never raises for a cell: given a table that has the date
\* columns it returns, and each cell of a date column is then a date or
\* missing, whatever it was (a text of any shape, a text of a rule's shape
\* that names no date, a number, missing); 'not-a-date' and '99/99/2023'
\* become missing.
C4_DatesNeverRaise ==
    (last = "clean_dates" /\ Range(DateColumns(dataset)) \subseteq prev.cols) =>
        /\ err = "none"
        /\ \A i \in 1..Len(prev.rows) : \A c \in Range(DateColumns(dataset)) :
              /\ df.rows[i][c].k \in {"date", "nan"}
              /\ prev.rows[i][c] \in {Str(<<"n", "o", "t", "-", "a", "-", "d", "a", "t", "e">>),
                                      Str(<<"9", "9", "/", "9", "9", "/", "2", "0", "2", "3">>)}
                    => df.rows[i][c] = NaN

\* clean_dates has made '99/99/2023' missing and has taken a number.
C4_Witness ==
    /\ Returned("clean_dates") /\ dataset = "card" /\ Len(prev.rows) = 2
    /\ prev.rows[1]["date_payment_confirmed"] = Str(<<"9", "9", "/", "9", "9", "/", "2", "0", "2", "3">>)
    /\ df.rows[1]["date_payment_confirmed"] = NaN
    /\ prev.rows[2]["date_payment_confirmed"] = Num(5, 0)
    /\ df.rows[2]["date_payment_confirmed"].k = "date"

\* The unit of a weight text <number><optional space><unit>: what follows the
\* number and one space, if it is not empty and has no digit and no space.
UnitPart(s) ==
    LET rest == SubSeq(s, NumberEnd(s, 1) + 1, Len(s))
    IN  IF Len(rest) > 0 /\ rest[1] = " " THEN Tail(rest) ELSE rest

WeightShape(c) ==
    /\ IsStr(c) /\ Len(c.s) > 0 /\ CharIsDigit(c.s[1])
    /\ Len(UnitPart(c.s)) > 0
    /\ \A i \in 1..Len(UnitPart(c.s)) :
          ~CharIsDigit(UnitPart(c.s)[i]) /\ UnitPart(c.s)[i] # " "

\* The unit classes in the order C5 gives them.
UnitClass(unit) ==
    LET u == lower(unit)
    IN  IF Contains(u, <<"k", "g">>) \/ Contains(u, <<"k", "i", "l", "o", "g", "r", "a", "m">>) THEN "kg"
        ELSE IF Contains(u, <<"g">>) \/ Contains(u, <<"g", "r", "a", "m">>) THEN "g"
        ELSE IF \/ Contains(u, <<"m", "l">>)
                \/ Contains(u, <<"m", "i", "l", "l", "i", "l", "i", "t", "e", "r">>)
                \/ Contains(u, <<"m", "i", "l", "l", "i", "l", "i", "t", "r", "e">>) THEN "g"
        ELSE IF Contains(u, <<"l", "i", "t", "e", "r">>) \/ Contains(u, <<"l", "i", "t", "r", "e">>) THEN "liters"
        ELSE "unrecognized"

\* The number a weight text starts with, as the decimal it denotes.
LeadingNumber(s) == ParseFloat(SubSeq(s, 1, NumberEnd(s, 1)))

\* C5: for a weight text <number><optional space><unit>, clean_weight_column
\* writes weight_kg = number / 1000 when the unit is of class g (which
\* includes ml), and the number unchanged when it is of class kg or liters,
\* the classes taken in the order kg, g, ml, liters; '100g' gives 0.1,
\* '1.5kg' gives 1.5 and '2 liters' gives 2.
C5_WeightConversion ==
    Returned("clean_weight_column") =>
        \A i \in 1..Len(prev.rows) :
            LET w == prev.rows[i]["weight"]
                kg == df.rows[i]["weight_kg"]
            IN  /\ (WeightShape(w) /\ UnitClass(UnitPart(w.s)) = "g")
                      => kg = Num(LeadingNumber(w.s).n, LeadingNumber(w.s).e + 3)
                /\ (WeightShape(w) /\ UnitClass(UnitPart(w.s)) \in {"kg", "liters"})
                      => kg = LeadingNumber(w.s)
                /\ w = Str(<<"1", "0", "0", "g">>) => kg = Num(1, 1)
                /\ w = Str(<<"1", ".", "5", "k", "g">>) => kg = Num(15, 1)
                /\ w = Str(<<"2", " ", "l", "i", "t", "e", "r", "s">>) => kg = Num(2, 0)

\* clean_weight_column has turned '100g' into 0.1 and '2 liters' into 2.
C5_Witness ==
    /\ Returned("clean_weight_column") /\ Len(prev.rows) = 2
    /\ prev.rows[1]["weight"] = Str(<<"1", "0", "0", "g">>) /\ df.rows[1]["weight_kg"] = Num(1, 1)
    /\ prev.rows[2]["weight"] = Str(<<"2", " ", "l", "i", "t", "e", "r", "s">>) /\ df.rows[2]["weight_kg"] = Num(2, 0)

\* A malformed weight cell: missing, a text with no digit, or a text in which
\* what follows the first number has none of the unit names (it may be empty,
\* as in 'kg100').
Malformed(c) ==
    \/ IsNull(c)
    \/ IsStr(c) /\ ~AnyDigit(c.s)
    \/ /\ IsStr(c) /\ AnyDigit(c.s)
       /\ LET text == StrReplace(c.s, <<" ">>, <<>>)
          IN  UnitClass(SubSeq(text, NumberEnd(text, FirstDigit(text)) + 1, Len(text)))
                 = "unrecognized"

\* C6: clean_weight_column does not raise for a table, with at least one row,
\* whose weight cells are texts or missing, and the weight_kg of every
\* malformed weight cell ('abc', a text with no or an unknown unit, 'kg100',
\* a missing cell) is missing.
C6_MalformedWeightMissing ==
    (last = "clean_weight_column" /\ "weight" \in prev.cols) =>
        /\ (Len(prev.rows) > 0 /\ \A i \in 1..Len(prev.rows) :
                IsNull(prev.rows[i]["weight"]) \/ IsStr(prev.rows[i]["weight"]))
              => err = "none"
        /\ err = "none" =>
              \A i \in 1..Len(prev.rows) :
                  Malformed(prev.rows[i]["weight"]) => df.rows[i]["weight_kg"] = NaN

\* clean_weight_column has made the weight of 'kg100' and of 'abc' missing.
C6_Witness ==
    /\ Returned("clean_weight_column") /\ Len(prev.rows) = 2
    /\ prev.rows[1]["weight"] = Str(<<"k", "g", "1", "0", "0">>) /\ df.rows[1]["weight_kg"] = NaN
    /\ prev.rows[2]["weight"] = Str(<<"a", "b", "c">>) /\ df.rows[2]["weight_kg"] = NaN

\* One of the four null tokens 'NULL', 'None', 'N/A', ''.
IsNullToken(c) ==
    IsStr(c) /\ c.s \in {<<"N", "U", "L", "L">>, <<"N", "o", "n", "e">>, <<"N", "/", "A">>, <<>>}

\* C7: standardize_nulls makes every cell that equals 'NULL', 'None', 'N/A'
\* or '' missing, in every column, and leaves every other cell, the number
\* and order of the rows and the columns as they were.
C7_NullsStandardized ==
    last = "standardize_nulls" =>
        /\ err = "none"
        /\ df.cols = prev.cols
        /\ Len(df.rows) = Len(prev.rows)
        /\ \A i \in 1..Len(prev.rows) : \A c \in prev.cols :
              df.rows[i][c] = IF IsNullToken(prev.rows[i][c]) THEN NaN ELSE prev.rows[i][c]

\* standardize_nulls has made a 'N/A' missing and left the row after it alone.
C7_Witness ==
    /\ Returned("standardize_nulls") /\ Len(prev.rows) = 2
    /\ \E c \in prev.cols : prev.rows[1][c] = Str(<<"N", "/", "A">>) /\ df.rows[1][c] = NaN
    /\ df.rows[2] = prev.rows[2]

\* C8: standardize_nulls applied to its own result changes nothing, and a
\* table with no null token is returned as it was.
C8_NullsIdempotent ==
    Returned("standardize_nulls") =>
        /\ standardize_nulls(df) = df
        /\ (\A i \in 1..Len(prev.rows) : \A c \in prev.cols : ~IsNullToken(prev.rows[i][c]))
              => df = prev

\* standardize_nulls has changed a table, and a second pass changes no more.
C8_Witness ==
    /\ Returned("standardize_nulls")
    /\ df # prev
    /\ \E i \in 1..Len(prev.rows) : \E c \in prev.cols : IsNullToken(prev.rows[i][c])
    /\ standardize_nulls(df) = df

\* The input has what the pipeline expects: a table has the expected columns,
\* a JSON document has the six fields, all with the same keys.
InputWellFormed ==
    IF dataset = "date_events"
    THEN /\ \A f \in Range(EventFields) : HasKey(input, f)
         /\ \A f \in Range(EventFields) :
               Keys(Lookup(input, f)) = Keys(Lookup(input, "timestamp"))
    ELSE input.cols = ExpectedColumns(dataset)

InputSize ==
    IF dataset = "date_events"
    THEN (IF HasKey(input, "timestamp") THEN Len(Lookup(input, "timestamp")) ELSE 0)
    ELSE Len(input.rows)

\* C9 as stated: a pipeline given an input with the expected columns (and at
\* least one row) runs to its end whatever the cells are.  Exceptions that
\* only some pandas builds raise are not held against it here.  The code
\* raises in combine_datetime_columns for a month '13'.
C9_PipelinesTotal ==
    (InputWellFormed /\ InputSize > 0 /\ pc = "raised") => err \in BuildDependentErrors

\* The columns each pipeline returns, of the columns it was given.
OutputColumns(ds, cols) ==
    CASE ds = "product" ->
            (cols \ {"weight", "number", "unit", "product_price"})
            \cup {"weight_kg", "product_price_gbp"}
      [] ds = "store" -> cols \ {"lat"}
      [] ds = "order" -> cols \ {"first_name", "last_name", "1"}
      [] ds = "date_events" ->
            (Range(EventFields) \ {"timestamp", "day", "month", "year"}) \cup {"datetime"}
      [] OTHER -> cols

\* C10: the columns of the table a pipeline returns are a fixed function of
\* the columns it was given, whatever the cells were and whichever rows were
\* dropped: product loses weight (and number, unit), gains weight_kg, and
\* has product_price_gbp for product_price; store loses lat; order loses
\* first_name, last_name and '1'; date-event has datetime for timestamp,
\* day, month and year.
C10_OutputColumns ==
    pc = "returned" =>
        /\ df.cols = OutputColumns(dataset, IF dataset = "date_events"
                                            THEN Range(EventFields) ELSE input.cols)
        /\ \A i \in 1..Len(df.rows) : DOMAIN df.rows[i] = df.cols

\* The product pipeline has returned after dropping one of its two rows.
C10_Witness ==
    /\ pc = "returned" /\ dataset = "product"
    /\ Len(input.rows) = 2 /\ Len(df.rows) = 1
    /\ df.cols = {"weight_kg", "product_price_gbp", "date_added", "product_name"}


\* The columns the stages of a pipeline name.
ReferencedColumns(ds) ==
    CASE ds = "user" ->
            {"address", "country", "country_code", "phone_number", "date_of_birth",
             "join_date"}
      [] ds \in {"card", "card_main"} -> {"card_number", "date_payment_confirmed"}
      [] ds = "store" ->
            {"address", "lat", "latitude", "opening_date", "store_type", "country_code",
             "continent", "locality", "staff_numbers", "store_code"}
      [] ds = "product" -> {"weight", "product_price", "date_added"}
      [] ds = "order" -> {"first_name", "last_name", "1", "product_quantity"}
      [] OTHER -> {}

\* C11 as stated: a pipeline given a table that lacks a column one of its
\* stages names does not return a table.  The order pipeline returns one for
\* a table without first_name, last_name or '1': drop_columns ignores the
\* columns that are absent.
C11_AbsentColumnRaises ==
    (pc = "returned" /\ dataset # "date_events") =>
        ReferencedColumns(dataset) \subseteq input.cols


\* A value that contains a digit: a text with a digit in it, or a number.
ContainsDigit(c) == (IsStr(c) /\ \E i \in 1..Len(c.s) : CharIsDigit(c.s[i])) \/ c.k = "num"

\* C12: clean_country_columns makes a country_code that contains a digit
\* missing ('USA1', 'U1'), makes one of more than 3 characters missing, turns
\* 'GGB' into 'GB' and leaves every other country_code as it is ('USA'); it
\* makes a country that contains a digit missing and leaves every other
\* country as it is.
C12_CountryColumns ==
    Returned("clean_country_columns") =>
        \A i \in 1..Len(prev.rows) :
            LET code == prev.rows[i]["country_code"]
                country == prev.rows[i]["country"]
            IN  /\ df.rows[i]["country_code"] =
                      IF ContainsDigit(code) THEN NaN
                      ELSE IF IsStr(code) /\ Len(code.s) > 3 THEN NaN
                      ELSE IF code = Str(<<"G", "G", "B">>) THEN Str(<<"G", "B">>)
                      ELSE code
                /\ df.rows[i]["country"] = IF ContainsDigit(country) THEN NaN ELSE country

\* clean_country_columns has turned 'GGB' into 'GB' and made 'U1' missing.
C12_Witness ==
    /\ Returned("clean_country_columns") /\ Len(prev.rows) = 2
    /\ prev.rows[1]["country_code"] = Str(<<"G", "G", "B">>)
    /\ df.rows[1]["country_code"] = Str(<<"G", "B">>)
    /\ prev.rows[2]["country_code"] = Str(<<"U", "1">>)
    /\ df.rows[2]["country_code"] = NaN


\* C13 as stated: clean_address writes a comma and a space for every line
\* break of an address.  The code writes a comma alone: '1 Hill\nYork'
\* becomes '1 Hill,York'.
C13_CommaSpace ==
    Returned("clean_address") =>
        \A i \in 1..Len(prev.rows) :
            IsStr(prev.rows[i]["address"]) =>
                df.rows[i]["address"] =
                    Str(StrReplace(prev.rows[i]["address"].s, <<"\n">>, <<",", " ">>))


\* A row-key of the timestamp mapping has no entry in the mapping of some field.
RowKeyMissing(json_data) ==
    \E i \in 1..Len(Lookup(json_data, "timestamp")) : \E f \in Range(EventFields) :
        \/ ~HasKey(json_data, f)
        \/ \A j \in 1..Len(Lookup(json_data, f)) :
              Lookup(json_data, f)[j][1] # Lookup(json_data, "timestamp")[i][1]

\* C14: reformat_json_to_df gives one row for each row-key of the timestamp
\* mapping, in the order of that mapping, each field of the row being the
\* entry of that row-key in the field's mapping; row-keys that only other
\* fields have give no row; and when a row-key of timestamp has no entry in
\* another field's mapping it raises KeyError and returns no table.
C14_ReformatJson ==
    (last = "reformat_json_to_df" /\ HasKey(input, "timestamp")) =>
        /\ RowKeyMissing(input) => (err = "KeyError" /\ pc = "raised" /\ df = prev)
        /\ ~RowKeyMissing(input) =>
              /\ err = "none"
              /\ Len(df.rows) = Len(Lookup(input, "timestamp"))
              /\ \A i \in 1..Len(df.rows) : \A f \in Range(EventFields) :
                    \E j \in 1..Len(Lookup(input, f)) :
                        /\ Lookup(input, f)[j][1] = Lookup(input, "timestamp")[i][1]
                        /\ df.rows[i][f] = Lookup(input, f)[j][2]

\* reformat_json_to_df has made two rows of a document in which month has a
\* third row-key.
C14_Witness ==
    /\ Returned("reformat_json_to_df")
    /\ Len(df.rows) = 2
    /\ Len(Lookup(input, "timestamp")) = 2
    /\ Len(Lookup(input, "month")) = 3


RECURSIVE IsSubSequence(_, _)
\* The rows a are rows of b, in the order they have in b.
IsSubSequence(a, b) ==
    IF a = <<>> THEN TRUE
    ELSE IF b = <<>> THEN FALSE
    ELSE IF Head(a) = Head(b) THEN IsSubSequence(Tail(a), Tail(b))
    ELSE IsSubSequence(a, Tail(b))

AllRowFilters ==
    {"remove_invalid_rows", "remove_invalid_rows_date_events_data",
     "remove_invalid_rows_excluding_store_code", "remove_null_rows"}

\* C15 as stated: the rows a row filter returns are rows it was given, cell
\* for cell, in the order they had.  remove_null_rows returns a row whose
\* time_period was 'NULL' with that cell made missing.
C15_FiltersKeepRows ==
    (last \in AllRowFilters /\ err = "none") =>
        /\ df.cols = prev.cols
        /\ IsSubSequence(df.rows, prev.rows)


ColumnCleaners ==
    {"clean_address", "clean_country_columns", "clean_phone_number", "clean_card_number",
     "clean_categorical_columns", "clean_locality", "clean_staff_numbers",
     "merge_latitude_columns"}

\* The columns C16 names for each column cleaner.
NamedColumns(st) ==
    CASE st = "clean_address" -> {"address"}
      [] st = "clean_country_columns" -> {"country", "country_code"}
      [] st = "clean_phone_number" -> {"phone_number"}
      [] st = "clean_card_number" -> {"card_number"}
      [] st = "clean_categorical_columns" -> {"store_type", "continent"}
      [] st = "clean_locality" -> {"locality"}
      [] st = "clean_staff_numbers" -> {"staff_numbers"}
      [] st = "merge_latitude_columns" -> {"lat", "latitude"}
      [] OTHER -> {}

\* The same, with country_code among the columns of clean_categorical_columns.
TouchedColumns(st) ==
    IF st = "clean_categorical_columns" THEN {"store_type", "country_code", "continent"}
    ELSE NamedColumns(st)

\* C16 as stated: a column cleaner leaves the number and order of the rows
\* and every column but its own as they were, the columns of
\* clean_categorical_columns being store_type and continent.  That cleaner
\* also makes a country_code with a digit, or of more than 3 characters,
\* missing.
C16_CleanersTouchNamedColumns ==
    (last \in ColumnCleaners /\ err = "none") =>
        /\ Len(df.rows) = Len(prev.rows)
        /\ df.cols \ NamedColumns(last) = prev.cols \ NamedColumns(last)
        /\ \A i \in 1..Len(prev.rows) : \A c \in prev.cols \ NamedColumns(last) :
              df.rows[i][c] = prev.rows[i][c]

\* C16 amended: a column cleaner that returns leaves the number and order of
\* the rows and every column but its own as they were, where the columns of
\* clean_categorical_columns are store_type, country_code and continent, and
\* those of merge_latitude_columns are latitude and lat (which it removes).
C16_CleanersTouchOwnColumns ==
    (last \in ColumnCleaners /\ err = "none") =>
        /\ Len(df.rows) = Len(prev.rows)
        /\ df.cols \ TouchedColumns(last) = prev.cols \ TouchedColumns(last)
        /\ \A i \in 1..Len(prev.rows) : \A c \in prev.cols \ TouchedColumns(last) :
              df.rows[i][c] = prev.rows[i][c]

\* clean_categorical_columns has made the country_code 'USA1' of the first of
\* two rows missing, and has left the second row as it was.
C16_Witness ==
    /\ Returned("clean_categorical_columns") /\ Len(prev.rows) = 2
    /\ prev.rows[1]["country_code"] = Str(<<"U", "S", "A", "1">>)
    /\ df.rows[1]["country_code"] = NaN
    /\ df.rows[2] = prev.rows[2]


\* Rule k of parse_non_standard_dates (in the order of the code) matches s.
RuleMatches(k, s) ==
    CASE k = 1 -> Dollar(s, ShapeYMDDash)
      [] k = 2 -> Dollar(s, ShapeYMDSlash)
      [] k = 3 -> Dollar(s, ShapeDMYSlash)
      [] k = 4 -> Dollar(s, ShapeMY)
      [] k = 5 -> Dollar(s, ShapeNameYearDay)
      [] k = 6 -> Dollar(s, ShapeYearNameDay)

RuleFormat(k) ==
    CASE k = 1 -> "%Y-%m-%d"
      [] k = 2 -> "%Y/%m/%d"
      [] k = 3 -> "%d/%m/%Y"
      [] k = 4 -> "%m/%y"
      [] k = 5 -> "%B %Y %d"
      [] k = 6 -> "%Y %B %d"

\* What parse_non_standard_dates returns for s if rule k is the one applied.
RuleResult(k, s) ==
    LET r == Strptime(RuleFormat(k), s) IN IF r = Raised THEN NaN ELSE r

\* The rules whose pattern matches s.
MatchingRules(s) == {k \in 1..6 : RuleMatches(k, s)}

\* The texts clean_dates was given in its date columns.
DateTexts ==
    {prev.rows[i][c].s : <<i, c>> \in
        {p \in (1..Len(prev.rows)) \X Range(DateColumns(dataset)) :
            IsStr(prev.rows[p[1]][p[2]])}}

\* C17 as stated: no text is matched by the patterns of two rules of
\* parse_non_standard_dates.  '2023 2023 16' is matched by the pattern of
\* <Month-name> YYYY DD and by that of YYYY <Month-name> DD, \w+ matching
\* digits.
C17_RulesDisjoint ==
    (last = "clean_dates" /\ err = "none") =>
        \A s \in DateTexts : Cardinality(MatchingRules(s)) <= 1

\* C17 amended: the only two rules of parse_non_standard_dates whose
\* patterns match one text are <Month-name> YYYY DD and YYYY <Month-name> DD
\* (a text of four digits, four digits and two digits), and every rule that
\* matches a text gives the result parse_non_standard_dates returns for it:
\* the result does not depend on the order of the rules.
C17_RulesOrderFree ==
    (last = "clean_dates" /\ err = "none") =>
        \A s \in DateTexts :
            LET rules == MatchingRules(s)
            IN  /\ Cardinality(rules) <= 1 \/ rules = {5, 6}
                /\ rules # {} =>
                      \A k \in rules : RuleResult(k, s) = parse_non_standard_dates(Str(s))

\* clean_dates has been given '2023 2023 16', which two rules match, and
\* 'October 2023 16', which one rule matches.
C17_Witness ==
    /\ Returned("clean_dates") /\ Len(prev.rows) = 2
    /\ prev.rows[1]["date_payment_confirmed"] = Str(<<"2", "0", "2", "3", " ", "2", "0", "2", "3", " ", "1", "6">>)
    /\ RuleMatches(5, prev.rows[1]["date_payment_confirmed"].s)
    /\ RuleMatches(6, prev.rows[1]["date_payment_confirmed"].s)
    /\ df.rows[1]["date_payment_confirmed"] = NaN
    /\ prev.rows[2]["date_payment_confirmed"] = Str(<<"O", "c", "t", "o", "b", "e", "r", " ", "2", "0", "2", "3", " ", "1", "6">>)


\* C18 as stated: no cell of the table a pipeline returns is a text of 10
\* letters and digits with at least one digit and one letter.  The card
\* pipeline returns 'AB12345678', which clean_card_number makes of
\* '?AB12345678' after remove_invalid_rows has run.
C18_NoSignatureReturned ==
    (pc = "returned" /\ dataset # "card_main") =>
        \A i \in 1..Len(df.rows) : \A c \in df.cols : ~MixedTen(df.rows[i][c])


\* What DataCleaning.clean_card_details returns for the table t.
CleanCardDetailsOf(t) ==
    clean_card_number(
        remove_invalid_rows(
            clean_dates(standardize_nulls(t), DateColumns("card"))))

\* C19 as stated: the stage order of main.card_details_clean returns the rows
\* that DataCleaning.clean_card_details returns for the same table.  For a
\* card_number '?AB12345678' the first drops the row ('?' is stripped before
\* the filter runs) and the second keeps it.
C19_CardOrdersAgree ==
    (dataset = "card_main" /\ pc = "returned") => df.rows = CleanCardDetailsOf(input).rows


\* C20 as stated: no cell of the table clean_user_data returns is one of the
\* null tokens 'NULL', 'None', 'N/A', ''.  clean_phone_number turns a missing
\* phone_number into '': str(nan) is 'nan', of which no character is a digit.
C20_NoNullTokenReturned ==
    (dataset = "user" /\ pc = "returned") =>
        \A i \in 1..Len(df.rows) : \A c \in df.cols : ~IsNullToken(df.rows[i][c])

===========================================================================
